---------------------------- MODULE Spec2Model ----------------------------
(***************************************************************************)
(* Model of the evolution clicker in src/src/main.rs: the World (state,    *)
(* optional Transition, four Buttons), the per-frame handlers              *)
(* World::handle_input and World::progress, the Transition progress        *)
(* engine and the Button interaction state machine.                        *)
(*                                                                         *)
(* Time.  The program measures time in f32 seconds.  The model measures it *)
(* in units of 1/190 s, the coarsest unit in which the three durations     *)
(* that the code compares against are whole numbers:                       *)
(*     Regular total      9.3 s        = 1767 units                        *)
(*     EggCracking total  3.0 s        =  570 units                        *)
(*     Regular sound cue  9.3 / 1.9 s  =  930 units                        *)
(* Arithmetic is exact; f32 rounding is not modelled.  A frame delta that  *)
(* f32 addition absorbs behaves as the delta 0 of the model.               *)
(*                                                                         *)
(* Option<T> is a sequence of length 0 (None) or 1 (Some).                 *)
(***************************************************************************)
EXTENDS Integers, Sequences, FiniteSets, TLC

VARIABLES
    state,        \* World.state
    transition,   \* World.transition : Option<Transition>
    buttons,      \* World.buttons : [Button; 4]
    panicked,     \* "" while running, else the message of the panic that aborted
    pc,           \* position in the frame loop of main()
    origin,       \* history: the latest start_transition call
    visited,      \* history: values World.state took since the latest start_transition
    cues,         \* history: sound cues played since the latest start_transition
    plays,        \* history: cue plays of the Transition instance now in World.transition
    lastDone,     \* history: the Transition a World::progress call just finished
    lastProgress, \* history: the latest Transition::progress call on a lone Transition
    drawn,        \* history: what the latest World::render call drew
    lastUpdate,   \* history: the latest update_button_state call on a lone Button
    followUp      \* history: the latest subsequent_transition call on a lone Transition

vars == <<state, transition, buttons, panicked, pc, origin, visited, cues,
          plays, lastDone, lastProgress, drawn, lastUpdate, followUp>>

---------------------------------------------------------------------------
(* Bounds of the model *)

\* frame deltas are 0, the Regular cue threshold, and 1..MaxTicks ticks of 1.5 s
MaxTicks == 3
\* the cue log keeps at most MaxCues entries (later cues are not logged)
MaxCues == 3
\* the per-instance play counter saturates at MaxPlays
MaxPlays == 2

---------------------------------------------------------------------------
(* Types *)

None == <<>>
Some(x) == <<x>>
IsSome(o) == Len(o) = 1
Unwrap(o) == o[1]

WorldState ==
    {"Egg", "EggCrack1", "EggCrack2", "Chick", "Duckling", "Duck", "Bird",
     "Heron", "BabyTurtle", "Salamander", "Dragonmander", "Turtle",
     "TurtleWizard", "BigEgg", "BigEggCrack1", "BigEggCrack2", "SmallDragon",
     "Nessi", "Kraken", "Jellyfish"}

SoundIndex == {"Crack1", "Crack2", "Scale1", "Scale2"}

ButtonType == {"Sun", "Water", "Arrowhead", "Restart"}

ButtonState == {"Idle", "Hovered", "Pressed", "Released"}

Regular == <<"Regular">>
EggCracking(b_type) == <<"EggCracking", b_type>>
TransitionType == {Regular} \cup {EggCracking(b) : b \in ButtonType}

IsEggCracking(t_type) == t_type[1] = "EggCracking"

\* Transition::new
TransitionNew(goal_state, t_type) ==
    [goal_state |-> goal_state, t_type |-> t_type,
     time_progressed |-> 0, sound_trigger |-> FALSE]

---------------------------------------------------------------------------
(* Transition *)

\* Transition::total_duration, in units of 1/190 s
total_duration(t) ==
    IF t.t_type = Regular THEN 93 * 19 ELSE 30 * 19

\* the threshold of Transition::update_sound_to_play
sound_start(t) ==
    IF t.t_type = Regular THEN (total_duration(t) * 10) \div 19
    ELSE total_duration(t)

\* Transition::update_sound_to_play
update_sound_to_play(t, time_old, time_new) ==
    [t EXCEPT !.sound_trigger =
        IF time_old <= sound_start(t) /\ sound_start(t) <= time_new
           /\ ~t.sound_trigger
        THEN TRUE ELSE FALSE]

\* a completed that wants more than the total duration
completed_late(t) == t.time_progressed > total_duration(t)

\* Transition::completed
completed(t) == t.time_progressed >= total_duration(t)

\* the cosine ease of Transition::colors, ((relative_progress * 2.8 * PI
\* - 0.4 * PI).cos() + 1.) / 2., in thousandths.  With
\* u = 2.8 * (relative_progress - 0.5) the expression equals sin(PI * |u| / 2)^2;
\* the sine is taken by Bhaskara's rational approximation
\* sin x ~ 16 x (PI - x) / (5 PI^2 - 4 x (PI - x)), which is exact at the ends
\* and the middle of the fade (1 at 1/7 and 6/7, 0 at 1/2) and leaves the
\* alpha within 5 thousandths of the code's in between.
cos_ease(time, total) ==
    LET d == 2 * time - total
        a == 7 * (IF d < 0 THEN -d ELSE d)
        n == a * (10 * total - a)
        sine == (4 * n) \div ((125 * total * total - n) \div 1000)
    IN  (sine * sine) \div 1000

\* a colors that crossfades the two artworks linearly
colors_crossfade(t) ==
    IF t.t_type = Regular
    THEN LET p == (1000 * t.time_progressed) \div total_duration(t)
         IN  [current |-> 1000 - p, next |-> p]
    ELSE [current |-> 1000, next |-> 0]

\* Transition::colors: the alphas of the current and of the goal artwork, in
\* thousandths
colors(t) ==
    IF t.t_type = Regular
    THEN LET total == total_duration(t)
             time == t.time_progressed
             \* relative_progress <= 1. / 7. || relative_progress >= 6. / 7.
             alpha == IF 7 * time <= total \/ 7 * time >= 6 * total
                      THEN 1000 ELSE cos_ease(time, total)
         IN  IF 2 * time <= total
             THEN [current |-> alpha, next |-> 0]
             ELSE [current |-> 0, next |-> alpha]
    ELSE [current |-> 1000, next |-> 0]

\* sound_to_play with the two crack cues exchanged
sound_to_play_swapped(t, rand) ==
    IF t.sound_trigger
    THEN IF t.t_type = <<"Regular">>
         THEN [panic |-> "", val |-> <<IF rand = 0 THEN "Scale1" ELSE "Scale2">>]
         ELSE IF t.goal_state \in {"BigEggCrack1", "EggCrack1"}
              THEN [panic |-> "", val |-> <<"Crack2">>]
              ELSE IF t.goal_state \in {"BigEggCrack2", "EggCrack2"}
                   THEN [panic |-> "", val |-> <<"Crack1">>]
                   ELSE [panic |-> "sound for crack requested but goal is no crack",
                         val |-> <<>>]
    ELSE [panic |-> "", val |-> <<>>]

\* Transition::sound_to_play; rand is the value of macroquad::rand::rand() % 2.
\* Returns [panic, val]: val is the Option<SoundIndex> when panic = "".
sound_to_play(t, rand) ==
    IF t.sound_trigger
    THEN IF t.t_type = Regular
         THEN [panic |-> "", val |-> Some(IF rand = 0 THEN "Scale1" ELSE "Scale2")]
         ELSE IF t.goal_state \in {"BigEggCrack1", "EggCrack1"}
              THEN [panic |-> "", val |-> Some("Crack1")]
              ELSE IF t.goal_state \in {"BigEggCrack2", "EggCrack2"}
                   THEN [panic |-> "", val |-> Some("Crack2")]
                   ELSE [panic |-> "sound for crack requested but goal is no crack",
                         val |-> None]
    ELSE [panic |-> "", val |-> None]

\* the hatchling match inside Transition::subsequent_transition
Hatchling(t, onSun, onWater, arrowMsg, regularMsg) ==
    IF IsEggCracking(t.t_type)
    THEN CASE t.t_type[2] = "Sun" -> [panic |-> "", val |-> Some(TransitionNew(onSun, Regular))]
           [] t.t_type[2] = "Water" -> [panic |-> "", val |-> Some(TransitionNew(onWater, Regular))]
           [] t.t_type[2] = "Arrowhead" -> [panic |-> arrowMsg, val |-> None]
           [] OTHER -> [panic |-> "restart?", val |-> None]
    ELSE [panic |-> regularMsg, val |-> None]

\* a subsequent_transition that restarts the first crack stage after it
subsequent_transition_again(t) ==
    CASE t.goal_state = "EggCrack1" ->
            [panic |-> "", val |-> Some(TransitionNew("EggCrack1", t.t_type))]
      [] t.goal_state = "EggCrack2" ->
            Hatchling(t, "Chick", "BabyTurtle", "arrow in egg?",
                      "transition to EggCrack2 was Regular?")
      [] t.goal_state = "BigEggCrack1" ->
            [panic |-> "", val |-> Some(TransitionNew("BigEggCrack1", t.t_type))]
      [] t.goal_state = "BigEggCrack2" ->
            Hatchling(t, "SmallDragon", "Kraken", "arrow in big egg?",
                      "transition to BigEggCrack2 was Regular?")
      [] OTHER -> [panic |-> "", val |-> None]

\* Transition::subsequent_transition.  Returns [panic, val]: val is the
\* Option<Transition> when panic = "".
subsequent_transition(t) ==
    CASE t.goal_state = "EggCrack1" ->
            [panic |-> "", val |-> Some(TransitionNew("EggCrack2", t.t_type))]
      [] t.goal_state = "EggCrack2" ->
            Hatchling(t, "Chick", "BabyTurtle", "arrow in egg?",
                      "transition to EggCrack2 was Regular?")
      [] t.goal_state = "BigEggCrack1" ->
            [panic |-> "", val |-> Some(TransitionNew("BigEggCrack2", t.t_type))]
      [] t.goal_state = "BigEggCrack2" ->
            Hatchling(t, "SmallDragon", "Kraken", "arrow in big egg?",
                      "transition to BigEggCrack2 was Regular?")
      [] OTHER -> [panic |-> "", val |-> None]

\* Transition::progress handing on what the nested call returned when the
\* follow-up completed too
RECURSIVE Transition_progress_chained(_, _)
Transition_progress_chained(t, delta_time) ==
    LET time_old == t.time_progressed
        t1 == [t EXCEPT !.time_progressed = time_old + delta_time]
        t2 == update_sound_to_play(t1, time_old, t1.time_progressed)
    IN  IF completed(t2)
        THEN LET total == total_duration(t2)
                 leftover_delta == t2.time_progressed - total
                 t3 == [t2 EXCEPT !.time_progressed = total]
                 sub == subsequent_transition(t3)
             IN  IF sub.panic # ""
                 THEN [self |-> t3, next |-> None, panic |-> sub.panic]
                 ELSE IF IsSome(sub.val)
                      THEN LET r == Transition_progress_chained(Unwrap(sub.val),
                                                                leftover_delta)
                           IN  [self |-> t3,
                                next |-> IF completed(r.self) THEN r.next ELSE Some(r.self),
                                panic |-> r.panic]
                      ELSE [self |-> t3, next |-> None, panic |-> ""]
        ELSE [self |-> t2, next |-> None, panic |-> ""]

\* Transition::progress without the clamp of time_progressed to the total
RECURSIVE Transition_progress_unclamped(_, _)
Transition_progress_unclamped(t, delta_time) ==
    LET time_old == t.time_progressed
        t1 == [t EXCEPT !.time_progressed = time_old + delta_time]
        t2 == update_sound_to_play(t1, time_old, t1.time_progressed)
    IN  IF completed(t2)
        THEN LET total == total_duration(t2)
                 leftover_delta == t2.time_progressed - total
                 sub == subsequent_transition(t2)
             IN  IF sub.panic # ""
                 THEN [self |-> t2, next |-> None, panic |-> sub.panic]
                 ELSE IF IsSome(sub.val)
                      THEN LET r == Transition_progress_unclamped(Unwrap(sub.val),
                                                                  leftover_delta)
                           IN  [self |-> t2, next |-> Some(r.self), panic |-> r.panic]
                      ELSE [self |-> t2, next |-> None, panic |-> ""]
        ELSE [self |-> t2, next |-> None, panic |-> ""]

\* Transition::progress.  Returns [self, next, panic]: self is the receiver
\* after the call, next the returned Option<Transition>.  The value returned
\* by the nested call on the follow-up is dropped, as in the code; a panic
\* inside it aborts the whole call.
RECURSIVE Transition_progress(_, _)
Transition_progress(t, delta_time) ==
    LET time_old == t.time_progressed
        t1 == [t EXCEPT !.time_progressed = time_old + delta_time]
        t2 == update_sound_to_play(t1, time_old, t1.time_progressed)
    IN  IF completed(t2)
        THEN LET total == total_duration(t2)
                 leftover_delta == t2.time_progressed - total
                 t3 == [t2 EXCEPT !.time_progressed = total]
                 sub == subsequent_transition(t3)
             IN  IF sub.panic # ""
                 THEN [self |-> t3, next |-> None, panic |-> sub.panic]
                 ELSE IF IsSome(sub.val)
                      THEN LET r == Transition_progress(Unwrap(sub.val), leftover_delta)
                           IN  [self |-> t3, next |-> Some(r.self), panic |-> r.panic]
                      ELSE [self |-> t3, next |-> None, panic |-> ""]
        ELSE [self |-> t2, next |-> None, panic |-> ""]

---------------------------------------------------------------------------
(* Button *)

\* The pointer as Button::update_button_state samples it: the part of the
\* world the position lies in, is_mouse_button_down and
\* is_mouse_button_pressed of the left button.
Region == {"outside", "sun", "water", "water_restart", "arrow"}
Pointer == [region : Region, down : BOOLEAN, pressed : BOOLEAN]

\* Button::create: the b_type of buttons[i]
b_type_of(i) ==
    CASE i = 0 -> "Sun" [] i = 1 -> "Water" [] i = 2 -> "Arrowhead" [] OTHER -> "Restart"

\* self.dest.contains(mouse_pos) for the rectangles of Button::create.
\* Sun is x 140..740, Water x 940..1540, Arrowhead x 1740..2340, all
\* y 2700..3300; Restart is x 1040..1440, y 2900..3300, inside Water.
contains(i, region) ==
    CASE i = 0 -> region = "sun"
      [] i = 1 -> region \in {"water", "water_restart"}
      [] i = 2 -> region = "arrow"
      [] OTHER -> region = "water_restart"

\* Button::new
ButtonNew == [disabled |-> FALSE, state |-> "Idle"]

\* Button::create
ButtonCreate ==
    [i \in 0..3 |-> IF i = 3 THEN [ButtonNew EXCEPT !.disabled = TRUE] ELSE ButtonNew]

\* update_button_state that takes a release anywhere for a click
update_button_state_anywhere(button, i, ptr) ==
    LET pressed_before == button.state = "Pressed"
        start == IF pressed_before THEN "Pressed" ELSE "Idle"
        new_state ==
            IF contains(i, ptr.region)
            THEN IF ~pressed_before
                 THEN IF ptr.pressed THEN "Pressed" ELSE "Hovered"
                 ELSE IF ~ptr.down THEN "Released" ELSE start
            ELSE IF ~ptr.down
                 THEN (IF pressed_before THEN "Released" ELSE "Idle")
                 ELSE start
    IN  [button |-> [button EXCEPT !.state = new_state],
         clicked |-> new_state = "Released"]

\* update_button_state that takes a held pointer button for a fresh press
update_button_state_held(button, i, ptr) ==
    LET pressed_before == button.state = "Pressed"
        start == IF pressed_before THEN "Pressed" ELSE "Idle"
        new_state ==
            IF contains(i, ptr.region)
            THEN IF ~pressed_before
                 THEN IF ptr.down THEN "Pressed" ELSE "Hovered"
                 ELSE IF ~ptr.down THEN "Released" ELSE start
            ELSE IF ~ptr.down THEN "Idle" ELSE start
    IN  [button |-> [button EXCEPT !.state = new_state],
         clicked |-> new_state = "Released"]

\* update_button_state that takes a Released button for a pressed one
update_button_state_stale(button, i, ptr) ==
    LET pressed_before == button.state \in {"Pressed", "Released"}
        start == IF pressed_before THEN "Pressed" ELSE "Idle"
        new_state ==
            IF contains(i, ptr.region)
            THEN IF ~pressed_before
                 THEN IF ptr.pressed THEN "Pressed" ELSE "Hovered"
                 ELSE IF ~ptr.down THEN "Released" ELSE start
            ELSE IF ~ptr.down THEN "Idle" ELSE start
    IN  [button |-> [button EXCEPT !.state = new_state],
         clicked |-> new_state = "Released"]

\* Button::update_button_state on buttons[i].  Returns [button, clicked].
update_button_state(button, i, ptr) ==
    LET pressed_before == button.state = "Pressed"
        start == IF pressed_before THEN "Pressed" ELSE "Idle"
        mouse_pressed == ptr.down
        new_state ==
            IF contains(i, ptr.region)
            THEN IF ~pressed_before
                 THEN IF ptr.pressed THEN "Pressed" ELSE "Hovered"
                 ELSE IF ~mouse_pressed THEN "Released" ELSE start
            ELSE IF ~mouse_pressed THEN "Idle" ELSE start
    IN  [button |-> [button EXCEPT !.state = new_state],
         clicked |-> new_state = "Released"]

---------------------------------------------------------------------------
(* World *)

Ok(v) == [panic |-> "", val |-> v]
Panic(msg) == [panic |-> msg, val |-> "Egg"]

\* the goal_state match of World::start_transition.  Returns [panic, val].
goal_state_of(s, b_type) ==
    CASE s = "Egg" ->
            (CASE b_type \in {"Sun", "Water"} -> Ok("EggCrack1")
               [] b_type = "Arrowhead" -> Ok("BigEgg")
               [] OTHER -> Ok("Egg"))
      [] s \in {"EggCrack1", "EggCrack2", "BigEggCrack1", "BigEggCrack2"} ->
            Panic("started transition in egg crack!")
      [] s = "Chick" ->
            (CASE b_type = "Sun" -> Panic("sun no longer available!")
               [] b_type = "Water" -> Ok("Duckling")
               [] b_type = "Arrowhead" -> Ok("Bird")
               [] OTHER -> Ok("Egg"))
      [] s = "Duckling" ->
            (CASE b_type = "Sun" -> Panic("sun no longer available!")
               [] b_type = "Water" -> Panic("water no longer available!")
               [] b_type = "Arrowhead" -> Ok("Duck")
               [] OTHER -> Ok("Egg"))
      [] s = "Bird" ->
            (CASE b_type = "Sun" -> Panic("sun no longer available!")
               [] b_type = "Water" -> Ok("Heron")
               [] b_type = "Arrowhead" -> Panic("arrow no longer available!")
               [] OTHER -> Ok("Egg"))
      [] s = "BabyTurtle" ->
            (CASE b_type = "Sun" -> Ok("Salamander")
               [] b_type = "Water" -> Panic("water no longer available!")
               [] b_type = "Arrowhead" -> Ok("Turtle")
               [] OTHER -> Ok("Egg"))
      [] s = "Salamander" ->
            (CASE b_type = "Sun" -> Panic("sun no longer available!")
               [] b_type = "Water" -> Panic("water no longer available!")
               [] b_type = "Arrowhead" -> Ok("Dragonmander")
               [] OTHER -> Ok("Egg"))
      [] s = "Turtle" ->
            (CASE b_type = "Sun" -> Ok("TurtleWizard")
               [] b_type = "Water" -> Panic("water no longer available!")
               [] b_type = "Arrowhead" -> Panic("arrow no longer available!")
               [] OTHER -> Ok("Egg"))
      [] s = "BigEgg" -> Ok("BigEggCrack1")
      [] s = "SmallDragon" ->
            (CASE b_type = "Sun" -> Panic("sun no longer available!")
               [] b_type = "Water" -> Ok("Nessi")
               [] b_type = "Arrowhead" -> Panic("arrow no longer available!")
               [] OTHER -> Ok("Egg"))
      [] s = "Kraken" ->
            (CASE b_type = "Sun" -> Ok("Jellyfish")
               [] b_type = "Water" -> Panic("water no longer available!")
               [] b_type = "Arrowhead" -> Panic("arrow no longer available!")
               [] OTHER -> Ok("Egg"))
      [] OTHER -> Ok("Egg")   \* Duck, Heron, Dragonmander, TurtleWizard, Nessi, Jellyfish

\* a start_transition that makes every Transition a Regular one
start_transition_regular(s, b_type) ==
    LET goal == goal_state_of(s, b_type)
    IN  IF goal.panic # ""
        THEN [panic |-> goal.panic, val |-> None]
        ELSE [panic |-> "", val |-> Some(TransitionNew(goal.val, Regular))]

\* World::start_transition.  Returns [panic, val]: val is the new value of
\* World.transition when panic = "".
start_transition(s, b_type) ==
    LET goal == goal_state_of(s, b_type)
        t_type == IF goal.val \in {"EggCrack1", "BigEggCrack1"}
                  THEN EggCracking(b_type) ELSE Regular
    IN  IF goal.panic # ""
        THEN [panic |-> goal.panic, val |-> None]
        ELSE [panic |-> "", val |-> Some(TransitionNew(goal.val, t_type))]

\* init_buttons that does not re-enable buttons[2], the Arrowhead button
init_buttons_short(bs) ==
    [i \in 0..3 |-> IF i = 2 THEN bs[i] ELSE [bs[i] EXCEPT !.disabled = (i = 3)]]

\* World::init_buttons
init_buttons(bs) ==
    [i \in 0..3 |-> [bs[i] EXCEPT !.disabled = (i = 3)]]

\* a finish_transition that re-enables the input buttons with Restart
finish_buttons_all(bs, goal_state) ==
    CASE goal_state = "Egg" -> init_buttons(bs)
      [] goal_state \in {"Duck", "Heron", "Dragonmander", "TurtleWizard",
                         "Nessi", "Jellyfish"} ->
            [i \in 0..3 |-> [bs[i] EXCEPT !.disabled = FALSE]]
      [] OTHER -> bs

\* the match on t.goal_state at the head of World::finish_transition
finish_buttons(bs, goal_state) ==
    CASE goal_state = "Egg" -> init_buttons(bs)
      [] goal_state \in {"Duck", "Heron", "Dragonmander", "TurtleWizard",
                         "Nessi", "Jellyfish"} ->
            [bs EXCEPT ![3].disabled = FALSE]
      [] OTHER -> bs

\* a handle_input loop without the disabled check
RECURSIVE poll_buttons_all(_, _, _, _)
poll_buttons_all(bs, i, ptr, clicked_button) ==
    IF i > 3
    THEN [buttons |-> bs, clicked_button |-> clicked_button]
    ELSE LET r == update_button_state(bs[i], i, ptr)
         IN  IF r.clicked
             THEN poll_buttons_all([bs EXCEPT ![i] = [r.button EXCEPT !.disabled = TRUE]],
                                   i + 1, ptr, Some(b_type_of(i)))
             ELSE poll_buttons_all([bs EXCEPT ![i] = r.button], i + 1, ptr,
                                   clicked_button)

\* a handle_input loop that disables the button after the clicked one as well
RECURSIVE poll_buttons_pair(_, _, _, _)
poll_buttons_pair(bs, i, ptr, clicked_button) ==
    IF i > 3
    THEN [buttons |-> bs, clicked_button |-> clicked_button]
    ELSE IF bs[i].disabled
         THEN poll_buttons_pair(bs, i + 1, ptr, clicked_button)
         ELSE LET r == update_button_state(bs[i], i, ptr)
              IN  IF r.clicked
                  THEN poll_buttons_pair([k \in 0..3 |->
                                             IF k = i
                                             THEN [r.button EXCEPT !.disabled = TRUE]
                                             ELSE [bs[k] EXCEPT !.disabled = (k = i + 1) \/ @]],
                                         i + 1, ptr, Some(b_type_of(i)))
                  ELSE poll_buttons_pair([bs EXCEPT ![i] = r.button], i + 1, ptr,
                                         clicked_button)

\* the loop of World::handle_input from buttons[i] on.  Returns
\* [buttons, clicked_button].
RECURSIVE poll_buttons(_, _, _, _)
poll_buttons(bs, i, ptr, clicked_button) ==
    IF i > 3
    THEN [buttons |-> bs, clicked_button |-> clicked_button]
    ELSE IF bs[i].disabled
         THEN poll_buttons(bs, i + 1, ptr, clicked_button)
         ELSE LET r == update_button_state(bs[i], i, ptr)
              IN  IF r.clicked
                  THEN poll_buttons([bs EXCEPT ![i] = [r.button EXCEPT !.disabled = TRUE]],
                                    i + 1, ptr, Some(b_type_of(i)))
                  ELSE poll_buttons([bs EXCEPT ![i] = r.button], i + 1, ptr,
                                    clicked_button)

\* the cue log and the per-instance play counter
Log(log, played) ==
    IF IsSome(played) /\ Len(log) < MaxCues THEN Append(log, Unwrap(played)) ELSE log
Count(n, played) ==
    IF IsSome(played) /\ n < MaxPlays THEN n + 1 ELSE n

Enabled(bs) == {b_type_of(i) : i \in {j \in 0..3 : ~bs[j].disabled}}

\* Button::draw on buttons[i]: the draw calls it makes, each the button's
\* texture with the tint of its interaction state
draw(bs, i) ==
    IF bs[i].disabled
    THEN {}
    ELSE {[texture |-> b_type_of(i),
           color |-> CASE bs[i].state = "Idle" -> "grey"
                       [] bs[i].state \in {"Hovered", "Released"} -> "white"
                       [] OTHER -> "dark"]}

\* World::render: the artworks drawn, in order, with their alphas, and the
\* button draw calls
render(s, tr, bs) ==
    IF IsSome(tr)
    THEN [images |-> <<[texture |-> s, alpha |-> colors(Unwrap(tr)).current],
                       [texture |-> Unwrap(tr).goal_state,
                        alpha |-> colors(Unwrap(tr)).next]>>,
          buttons |-> {}]
    ELSE [images |-> <<[texture |-> s, alpha |-> 1000]>>,
          buttons |-> UNION {draw(bs, i) : i \in 0..3}]

---------------------------------------------------------------------------
(* The frame loop of main(): handle_input, progress, render, every frame *)

\* World::new
Init ==
    /\ state = "Egg"
    /\ transition = None
    /\ buttons = ButtonCreate
    /\ panicked = ""
    /\ pc = "handle_input"
    /\ origin = None
    /\ visited = <<>>
    /\ cues = <<>>
    /\ plays = 0
    /\ lastDone = None
    /\ lastProgress = None
    /\ drawn = None
    /\ lastUpdate = None
    /\ followUp = None

\* the head of a frame: clear_background, which wipes what the last frame
\* drew, then World::handle_input with the pointer ptr
HandleInput(ptr) ==
    /\ pc = "handle_input"
    /\ panicked = ""
    /\ drawn' = None
    /\ LET polled == poll_buttons(buttons, 0, ptr, None)
       IN  /\ buttons' = polled.buttons
           /\ lastDone' = None
           /\ IF IsSome(polled.clicked_button)
              THEN LET b_type == Unwrap(polled.clicked_button)
                       started == start_transition(state, b_type)
                   IN  /\ origin' = Some([from |-> state, b_type |-> b_type,
                                          at_rest |-> transition = None,
                                          enabled |-> Enabled(buttons)])
                       /\ IF started.panic # ""
                          THEN /\ panicked' = started.panic
                               /\ UNCHANGED <<transition, visited, cues, plays>>
                          ELSE /\ transition' = started.val
                               /\ visited' = <<>>
                               /\ cues' = <<>>
                               /\ plays' = 0
                               /\ UNCHANGED panicked
              ELSE UNCHANGED <<transition, panicked, origin, visited, cues, plays>>
    /\ pc' = "progress"
    /\ UNCHANGED <<state, lastProgress, lastUpdate, followUp>>

\* a progress that moves the world to the goal state at once, without
\* finalization
World_progress_eager(delta_secs, rand1, rand2) ==
    /\ pc = "progress"
    /\ panicked = ""
    /\ pc' = "render"
    /\ state' = (IF IsSome(transition) THEN Unwrap(transition).goal_state ELSE state)
    /\ transition' = None
    /\ lastDone' = None
    /\ UNCHANGED <<buttons, panicked, origin, visited, cues, plays, lastProgress,
                   drawn, lastUpdate, followUp>>

\* World::progress with the frame delta delta_secs; rand1 and rand2 are the
\* values macroquad::rand::rand() % 2 takes in the two sound_to_play calls
World_progress(delta_secs, rand1, rand2) ==
    /\ pc = "progress"
    /\ panicked = ""
    /\ pc' = "render"
    /\ UNCHANGED <<drawn, lastUpdate, followUp>>
    /\ IF IsSome(transition)
       THEN LET r == Transition_progress(Unwrap(transition), delta_secs)
                t == r.self
                sound == sound_to_play(t, rand1)
            IN  IF r.panic # "" \/ sound.panic # ""
                THEN /\ panicked' = (IF r.panic # "" THEN r.panic ELSE sound.panic)
                     /\ UNCHANGED <<state, transition, buttons, origin, visited,
                                    cues, plays, lastDone, lastProgress>>
                ELSE IF completed(t)
                     THEN \* World::finish_transition(&t, next_transition)
                          LET next_sound ==
                                  IF IsSome(r.next) THEN sound_to_play(Unwrap(r.next), rand2)
                                  ELSE Ok(None)
                          IN  /\ buttons' = finish_buttons(buttons, t.goal_state)
                              /\ state' = t.goal_state
                              /\ visited' = Append(visited, t.goal_state)
                              /\ lastDone' = Some([goal_state |-> t.goal_state,
                                                   t_type |-> t.t_type,
                                                   plays |-> Count(plays, sound.val)])
                              /\ IF next_sound.panic # ""
                                 THEN /\ panicked' = next_sound.panic
                                      /\ cues' = Log(cues, sound.val)
                                      /\ UNCHANGED <<transition, plays>>
                                 ELSE /\ transition' = r.next
                                      /\ cues' = Log(Log(cues, sound.val), next_sound.val)
                                      /\ plays' = Count(0, next_sound.val)
                                      /\ UNCHANGED panicked
                              /\ UNCHANGED <<origin, lastProgress>>
                     ELSE /\ transition' = Some(t)
                          /\ cues' = Log(cues, sound.val)
                          /\ plays' = Count(plays, sound.val)
                          /\ lastDone' = None
                          /\ UNCHANGED <<state, buttons, panicked, origin, visited,
                                         lastProgress>>
       ELSE UNCHANGED <<state, transition, buttons, panicked, origin, visited,
                        cues, plays, lastDone, lastProgress>>

\* World::render
Render ==
    /\ pc = "render"
    /\ panicked = ""
    /\ drawn' = Some(render(state, transition, buttons))
    /\ pc' = "handle_input"
    /\ UNCHANGED <<state, transition, buttons, panicked, origin, visited, cues,
                   plays, lastDone, lastProgress, lastUpdate, followUp>>

\* the frame deltas of the model, in units of 1/190 s: 0, the Regular cue
\* threshold (9.3 / 1.9 s), and 1..MaxTicks ticks of 1.5 s
Tick == 15 * 19
Deltas == {0, (93 * 19 * 10) \div 19} \cup {k * Tick : k \in 1..MaxTicks}

Next ==
    \/ \E ptr \in Pointer : HandleInput(ptr)
    \/ \E delta_secs \in Deltas, rand1, rand2 \in {0, 1} :
           World_progress(delta_secs, rand1, rand2)
    \/ Render

Spec == Init /\ [][Next]_vars

---------------------------------------------------------------------------
(* Claims about the frame loop *)

IsPrefix(s, t) == Len(s) <= Len(t) /\ SubSeq(t, 1, Len(s)) = s

StartTransitionPanics ==
    {"started transition in egg crack!", "sun no longer available!",
     "water no longer available!", "arrow no longer available!"}

\* C1: in every run of frames from the initial world, start_transition is
\* never called with a (state, input) pair that hits one of its panics.
C1_NoFatalAbort == panicked \notin StartTransitionPanics

\* a handle_input call in which the enabled button i reports a click
ClickedNow(i) ==
    /\ pc = "handle_input" /\ pc' = "progress"
    /\ ~buttons[i].disabled
    /\ buttons'[i].state = "Released"

\* C2: a handle_input call that starts with a Transition present leaves that
\* Transition and the enablement of the buttons as they were.
C2_ActiveTransitionKept ==
    [][(pc = "handle_input" /\ IsSome(transition))
         => (transition' = transition /\ Enabled(buttons') = Enabled(buttons))]_vars

\* C3: a click on Sun at rest in Egg creates the Transition to EggCrack1 of
\* kind EggCracking(Sun) with no time elapsed, and leaves Sun, Water and
\* Arrowhead all disabled when handle_input returns.
C3_SunClickDisablesAll ==
    [][(state = "Egg" /\ transition = None /\ ClickedNow(0))
         => (/\ transition' = Some(TransitionNew("EggCrack1", EggCracking("Sun")))
             /\ Enabled(buttons') \cap {"Sun", "Water", "Arrowhead"} = {})]_vars

\* the stages a crack sequence started by (from, b_type) is to pass through
CrackStages(from, b_type) ==
    IF from = "Egg"
    THEN <<"EggCrack1", "EggCrack2", IF b_type = "Sun" THEN "Chick" ELSE "BabyTurtle">>
    ELSE <<"BigEggCrack1", "BigEggCrack2",
           IF b_type = "Sun" THEN "SmallDragon" ELSE "Kraken">>

\* the latest click started an egg-cracking Transition, and the program runs
CrackStarted ==
    /\ IsSome(origin)
    /\ panicked = ""
    /\ goal_state_of(Unwrap(origin).from, Unwrap(origin).b_type).val
           \in {"EggCrack1", "BigEggCrack1"}

\* C4: after the click that starts an egg-cracking Transition and until the
\* next click, World.state takes the values crack 1, crack 2, hatchling in
\* that order, none left out, whatever the frame deltas are; once at rest
\* again it has taken all three.
C4_CrackStagesInOrder ==
    CrackStarted =>
        LET o == Unwrap(origin)
            stages == CrackStages(o.from, o.b_type)
        IN  /\ IsPrefix(visited, stages)
            /\ state = (IF visited = <<>> THEN o.from ELSE visited[Len(visited)])
            /\ transition = None => visited = stages

\* C4 witness: one progress call completed crack 1 and crack 2 at once; the
\* world is in crack 1 and holds the completed Transition to crack 2.
C4_Witness ==
    /\ CrackStarted
    /\ visited = <<"EggCrack1">>
    /\ IsSome(transition)
    /\ Unwrap(transition).goal_state = "EggCrack2"
    /\ completed(Unwrap(transition))

\* C5: every Transition that runs to completion has had its cue played
\* exactly once when it is finished, however the deltas were split.
C5_CueExactlyOnce ==
    IsSome(lastDone) => Unwrap(lastDone).plays = 1

IsCrack(cue) == cue \in {"Crack1", "Crack2"}

SunFromEgg ==
    /\ IsSome(origin)
    /\ Unwrap(origin).from = "Egg"
    /\ Unwrap(origin).b_type = "Sun"
    /\ Unwrap(origin).at_rest
    /\ panicked = ""

C6_Rest ==
    /\ transition = None
    /\ state = "Chick"
    /\ SelectSeq(cues, IsCrack) = <<"Crack1", "Crack2">>

\* C6: after a click on Sun at rest in Egg and no further click, the crack
\* cues played are Crack1 then Crack2 and no other, the world comes to rest
\* only in Chick with both played, and with frames whose delta is positive
\* it does come to rest there.
C6_SunHatchesChick ==
    /\ [](SunFromEgg =>
            /\ IsPrefix(SelectSeq(cues, IsCrack), <<"Crack1", "Crack2">>)
            /\ transition = None => C6_Rest)
    /\ (SunFromEgg ~> (C6_Rest \/ ~SunFromEgg))

C6_Witness == SunFromEgg /\ C6_Rest

DuckRestart ==
    /\ IsSome(origin)
    /\ Unwrap(origin) = [from |-> "Duck", b_type |-> "Restart", at_rest |-> TRUE,
                         enabled |-> {"Restart"}]

InitialEnablement == Enabled(buttons) = {"Sun", "Water", "Arrowhead"}

\* C7: a click on Restart at rest in Duck, Restart being the one enabled
\* button, never aborts, and the world next comes to rest in Egg with Sun,
\* Water and Arrowhead enabled and Restart disabled.
C7_RestartFromDuck ==
    DuckRestart =>
        /\ panicked = ""
        /\ IF IsSome(transition)
           THEN /\ state = "Duck"
                /\ Unwrap(transition).goal_state = "Egg"
                /\ Enabled(buttons) = {}
           ELSE state = "Egg" /\ InitialEnablement

C7_Witness == DuckRestart /\ transition = None /\ state = "Egg" /\ InitialEnablement

\* C10: when World::progress returns, World.transition is not completed.
C10_NoCompletedTransition ==
    (pc = "handle_input" /\ IsSome(transition)) => ~completed(Unwrap(transition))

\* the frame loop with frames that keep coming (main() loops for ever) and a
\* clock that advances: of the progress calls, which alternate with the
\* handle_input calls, infinitely many get a positive delta
FairSpec ==
    /\ Spec
    /\ WF_vars(\E ptr \in Pointer : HandleInput(ptr))
    /\ WF_vars(Render)
    /\ SF_vars(\E delta_secs \in Deltas \ {0}, rand1, rand2 \in {0, 1} :
                   World_progress(delta_secs, rand1, rand2))

\* the frame loop with the pointer kept over the Sun button or off every
\* button, so that Sun is the one button that can be clicked
SunPointer == {ptr \in Pointer : ptr.region \in {"outside", "sun"}}

SunNext ==
    \/ \E ptr \in SunPointer : HandleInput(ptr)
    \/ \E delta_secs \in Deltas, rand1, rand2 \in {0, 1} :
           World_progress(delta_secs, rand1, rand2)
    \/ Render

SunFairSpec ==
    /\ Init /\ [][SunNext]_vars
    /\ WF_vars(\E ptr \in SunPointer : HandleInput(ptr))
    /\ WF_vars(Render)
    /\ SF_vars(\E delta_secs \in Deltas \ {0}, rand1, rand2 \in {0, 1} :
                   World_progress(delta_secs, rand1, rand2))

---------------------------------------------------------------------------
(* World::start_transition on its own, for every (state, input) pair *)

GraphInit ==
    /\ state \in WorldState
    /\ transition = None
    /\ buttons = ButtonCreate
    /\ panicked = ""
    /\ pc = "handle_input"
    /\ origin = None
    /\ visited = <<>>
    /\ cues = <<>>
    /\ plays = 0
    /\ lastDone = None
    /\ lastProgress = None
    /\ drawn = None
    /\ lastUpdate = None
    /\ followUp = None

\* one call of World::start_transition(b_type)
StartTransition(b_type) ==
    /\ panicked = ""
    /\ LET started == start_transition(state, b_type)
       IN  /\ origin' = Some([from |-> state, b_type |-> b_type,
                              at_rest |-> transition = None,
                              enabled |-> Enabled(buttons)])
           /\ IF started.panic # ""
              THEN panicked' = started.panic /\ UNCHANGED transition
              ELSE transition' = started.val /\ UNCHANGED panicked
    /\ UNCHANGED <<state, buttons, pc, visited, cues, plays, lastDone, lastProgress,
                   drawn, lastUpdate, followUp>>

GraphNext == \E b_type \in ButtonType : StartTransition(b_type)

SpecGraph == GraphInit /\ [][GraphNext]_vars

Terminal == {"Duck", "Heron", "Dragonmander", "TurtleWizard", "Nessi", "Jellyfish"}

\* the evolution table of the design: the edges of the tree, and Restart
\* from the terminal forms
EvolutionTable ==
    {<<"Egg", "Sun">>, <<"Egg", "Water">>, <<"Egg", "Arrowhead">>,
     <<"Chick", "Water">>, <<"Chick", "Arrowhead">>,
     <<"Duckling", "Arrowhead">>, <<"Bird", "Water">>,
     <<"BabyTurtle", "Sun">>, <<"BabyTurtle", "Arrowhead">>,
     <<"Salamander", "Arrowhead">>, <<"Turtle", "Sun">>,
     <<"BigEgg", "Sun">>, <<"BigEgg", "Water">>,
     <<"SmallDragon", "Water">>, <<"Kraken", "Sun">>}
    \cup {<<s, "Restart">> : s \in Terminal}

\* C8: start_transition yields a Transition for every pair of the evolution
\* table and aborts for every other pair.
C8_TableOrAbort ==
    IsSome(origin) =>
        IF <<Unwrap(origin).from, Unwrap(origin).b_type>> \in EvolutionTable
        THEN panicked = "" /\ IsSome(transition)
        ELSE panicked # ""

---------------------------------------------------------------------------
(* Transition::progress on a lone Transition *)

TransitionInit ==
    /\ state = "Egg"
    /\ transition \in {Some(TransitionNew(g, k)) : g \in WorldState, k \in TransitionType}
    /\ buttons = ButtonCreate
    /\ panicked = ""
    /\ pc = "handle_input"
    /\ origin = None
    /\ visited = <<>>
    /\ cues = <<>>
    /\ plays = 0
    /\ lastDone = None
    /\ lastProgress = None
    /\ drawn = None
    /\ lastUpdate = None
    /\ followUp = None

\* one call of Transition::progress(delta_time) on the Transition; the
\* returned follow-up is dropped
ProgressCall(delta_time) ==
    /\ panicked = ""
    /\ LET r == Transition_progress(Unwrap(transition), delta_time)
       IN  /\ transition' = Some(r.self)
           /\ panicked' = r.panic
    /\ lastProgress' = Some([before |-> Unwrap(transition), delta_time |-> delta_time])
    /\ UNCHANGED <<state, buttons, pc, origin, visited, cues, plays, lastDone,
                   drawn, lastUpdate, followUp>>

\* one call of Transition::subsequent_transition on the Transition
SubsequentCall ==
    /\ panicked = ""
    /\ LET r == subsequent_transition(Unwrap(transition))
       IN  /\ followUp' = Some([of |-> Unwrap(transition), next |-> r.val,
                                panic |-> r.panic])
           /\ panicked' = r.panic
    /\ UNCHANGED <<state, transition, buttons, pc, origin, visited, cues, plays,
                   lastDone, lastProgress, drawn, lastUpdate>>

\* one call of World::render while the Transition is the active one
DrawCall ==
    /\ panicked = ""
    /\ drawn' = Some(render(state, transition, buttons))
    /\ UNCHANGED <<state, transition, buttons, panicked, pc, origin, visited, cues,
                   plays, lastDone, lastProgress, lastUpdate, followUp>>

TransitionNext ==
    \/ \E delta_time \in Deltas : ProgressCall(delta_time)
    \/ SubsequentCall
    \/ DrawCall

SpecTransition == TransitionInit /\ [][TransitionNext]_vars

\* C9: over the progress calls on one Transition, time_progressed never
\* decreases and is at most total_duration after each call, a Transition
\* whose time_progressed equals total_duration is completed, and a
\* completed Transition is completed after every further call.
C9_ProgressMonotonic ==
    [][LET t == Unwrap(transition)
           u == Unwrap(transition')
       IN  /\ u.time_progressed >= t.time_progressed
           /\ u.time_progressed <= total_duration(u)
           /\ t.time_progressed = total_duration(t) => completed(t)
           /\ completed(t) => completed(u)]_vars

\* C9 witness: a completed Transition was progressed again by a positive delta
C9_Witness ==
    /\ IsSome(lastProgress)
    /\ completed(Unwrap(lastProgress).before)
    /\ Unwrap(lastProgress).delta_time > 0
    /\ panicked = ""
    /\ Unwrap(transition).time_progressed = total_duration(Unwrap(transition))

---------------------------------------------------------------------------
(* Claims about the enablement of the buttons *)

\* the inputs that are edges of the evolution table from the state s
ValidInputs(s) == {b \in ButtonType : <<s, b>> \in EvolutionTable}

\* C11: whenever the world is at rest, the enabled buttons are exactly the
\* valid inputs of the evolution graph from the resting state.
C11_EnabledIffValid ==
    (transition = None /\ panicked = "") => Enabled(buttons) = ValidInputs(state)

---------------------------------------------------------------------------
(* Button::update_button_state on a lone Button *)

\* the two enablement patterns of World::init_buttons and of a terminal form
ButtonInit ==
    /\ state = "Egg"
    /\ transition = None
    /\ \E restart \in BOOLEAN, f \in [0..3 -> ButtonState] :
           buttons = [i \in 0..3 |-> [disabled |-> ((i = 3) # restart), state |-> f[i]]]
    /\ panicked = ""
    /\ pc = "handle_input"
    /\ origin = None
    /\ visited = <<>>
    /\ cues = <<>>
    /\ plays = 0
    /\ lastDone = None
    /\ lastProgress = None
    /\ drawn = None
    /\ lastUpdate = None
    /\ followUp = None

\* one call of update_button_state on the enabled button buttons[i]
UpdateButton(i, ptr) ==
    /\ ~buttons[i].disabled
    /\ LET r == update_button_state(buttons[i], i, ptr)
       IN  /\ buttons' = [buttons EXCEPT ![i] = r.button]
           /\ lastUpdate' = Some([i |-> i, before |-> buttons[i].state, ptr |-> ptr,
                                  clicked |-> r.clicked])
    /\ UNCHANGED <<state, transition, panicked, pc, origin, visited, cues, plays,
                   lastDone, lastProgress, drawn, followUp>>

ButtonNext == \E i \in 0..3, ptr \in Pointer : UpdateButton(i, ptr)

SpecButton == ButtonInit /\ [][ButtonNext]_vars

\* the latest call: the button's state after it, and whether the pointer was
\* inside the button's rectangle
After(u) == buttons[u.i].state
Inside(u) == contains(u.i, u.ptr.region)

\* C12: for a button that was Pressed, the call yields Pressed while the
\* pointer button is held, Released and a click when it is no longer held
\* and the pointer is inside, Idle and no click when it is no longer held and
\* the pointer is outside; no other call reports a click.
C12_PressedButton ==
    IsSome(lastUpdate) =>
        LET u == Unwrap(lastUpdate)
        IN  IF u.before = "Pressed"
            THEN /\ u.ptr.down => (After(u) = "Pressed" /\ ~u.clicked)
                 /\ (~u.ptr.down /\ Inside(u)) => (After(u) = "Released" /\ u.clicked)
                 /\ (~u.ptr.down /\ ~Inside(u)) => (After(u) = "Idle" /\ ~u.clicked)
            ELSE ~u.clicked

\* C12 witness: a Pressed button released inside its rectangle
C12_Witness ==
    /\ IsSome(lastUpdate)
    /\ Unwrap(lastUpdate).before = "Pressed"
    /\ ~Unwrap(lastUpdate).ptr.down
    /\ Inside(Unwrap(lastUpdate))
    /\ Unwrap(lastUpdate).clicked

\* C16: for a button that was not Pressed, the call yields Pressed when the
\* pointer is inside and its button was freshly pressed this frame, Hovered
\* when it is inside without a fresh press, held or not, and Idle when it is
\* outside; it reports no click.
C16_UnpressedButton ==
    (IsSome(lastUpdate) /\ Unwrap(lastUpdate).before # "Pressed") =>
        LET u == Unwrap(lastUpdate)
        IN  /\ ~u.clicked
            /\ (Inside(u) /\ u.ptr.pressed) => After(u) = "Pressed"
            /\ (Inside(u) /\ ~u.ptr.pressed) => After(u) = "Hovered"
            /\ ~Inside(u) => After(u) = "Idle"

\* C16 witness: the pointer is over a Released button with its button held
\* down since an earlier frame
C16_Witness ==
    /\ IsSome(lastUpdate)
    /\ Unwrap(lastUpdate).before = "Released"
    /\ Inside(Unwrap(lastUpdate))
    /\ Unwrap(lastUpdate).ptr.down
    /\ ~Unwrap(lastUpdate).ptr.pressed
    /\ After(Unwrap(lastUpdate)) = "Hovered"

---------------------------------------------------------------------------
(* Claims about disabled buttons *)

\* the steps of the frame loop
HandleInputStep == pc = "handle_input" /\ pc' = "progress"
RenderStep == pc = "render" /\ pc' = "handle_input"

\* a handle_input step that called start_transition
Started == origin' # origin \/ transition' # transition \/ panicked' # panicked

\* C13: a disabled button is never evaluated: handle_input leaves its
\* interaction state unchanged, the button whose click starts a transition
\* was enabled when handle_input began, and render draws no disabled button.
C13_DisabledNotEvaluated ==
    [][/\ HandleInputStep =>
            /\ \A i \in 0..3 : buttons[i].disabled => buttons'[i] = buttons[i]
            /\ Started => /\ IsSome(origin')
                          /\ Unwrap(origin').b_type \in Enabled(buttons)
       /\ RenderStep =>
            \A i \in 0..3 : buttons[i].disabled =>
                \A d \in Unwrap(drawn').buttons : d.texture # b_type_of(i)]_vars

\* C13 witness: at rest in Chick a frame was rendered with the pointer over
\* the Water button: the disabled Sun button still holds the Released state
\* of its click and is not drawn, the Water button is
C13_Witness ==
    /\ state = "Chick"
    /\ transition = None
    /\ IsSome(drawn)
    /\ buttons[0].disabled
    /\ buttons[0].state = "Released"
    /\ buttons[1].state = "Hovered"
    /\ [texture |-> "Water", color |-> "white"] \in Unwrap(drawn).buttons
    /\ \A d \in Unwrap(drawn).buttons : d.texture # "Sun"

\* C14: the Restart button is enabled only when the world is at rest in a
\* terminal state, and at rest in a terminal state Restart is the only
\* enabled button.
C14_RestartOnlyAtTerminal ==
    /\ "Restart" \in Enabled(buttons) => (transition = None /\ state \in Terminal)
    /\ (transition = None /\ state \in Terminal) => Enabled(buttons) = {"Restart"}

\* C14 witness: a transition has just come to rest in a terminal state
C14_Witness ==
    /\ IsSome(lastDone)
    /\ transition = None
    /\ state \in Terminal
    /\ Enabled(buttons) = {"Restart"}

---------------------------------------------------------------------------
(* Claims about the follow-up and the colours of a Transition *)

\* C15: subsequent_transition gives, for goal EggCrack1 (BigEggCrack1), a
\* fresh Transition to EggCrack2 (BigEggCrack2) of the same kind; for goal
\* EggCrack2 a Regular Transition to Chick on Sun and BabyTurtle on Water;
\* for goal BigEggCrack2 a Regular Transition to SmallDragon on Sun and
\* Kraken on Water; for every other goal state no follow-up.
C15_SubsequentRule ==
    IsSome(followUp) =>
        LET t == Unwrap(followUp).of
            next == Unwrap(followUp).next
            ok == Unwrap(followUp).panic = ""
            gives(goal_state, t_type) ==
                ok /\ next = Some(TransitionNew(goal_state, t_type))
        IN  /\ t.goal_state = "EggCrack1" => gives("EggCrack2", t.t_type)
            /\ t.goal_state = "BigEggCrack1" => gives("BigEggCrack2", t.t_type)
            /\ (t.goal_state = "EggCrack2" /\ t.t_type = EggCracking("Sun"))
                   => gives("Chick", Regular)
            /\ (t.goal_state = "EggCrack2" /\ t.t_type = EggCracking("Water"))
                   => gives("BabyTurtle", Regular)
            /\ (t.goal_state = "BigEggCrack2" /\ t.t_type = EggCracking("Sun"))
                   => gives("SmallDragon", Regular)
            /\ (t.goal_state = "BigEggCrack2" /\ t.t_type = EggCracking("Water"))
                   => gives("Kraken", Regular)
            /\ t.goal_state \notin {"EggCrack1", "EggCrack2", "BigEggCrack1",
                                    "BigEggCrack2"}
                   => (ok /\ next = None)

\* C15 witness: the follow-up of a completed second crack that carries Water
C15_Witness ==
    /\ IsSome(followUp)
    /\ Unwrap(followUp).of.goal_state = "EggCrack2"
    /\ Unwrap(followUp).of.t_type = EggCracking("Water")
    /\ completed(Unwrap(followUp).of)
    /\ Unwrap(followUp).next = Some(TransitionNew("BabyTurtle", Regular))

\* C19: what render draws for an active Transition: for a Regular one the
\* goal artwork has alpha 0 up to 50% progress and the current artwork has
\* alpha 0 above 50%, with alphas (1, 0) at 0% and (0, 1) at 100%; for an
\* EggCracking one the alphas are (1, 0) at every elapsed time.
C19_ColorsSplit ==
    [][(drawn' # drawn /\ IsSome(drawn') /\ IsSome(transition)) =>
          LET t == Unwrap(transition)
              time == t.time_progressed
              total == total_duration(t)
              current == Unwrap(drawn').images[1].alpha
              next == Unwrap(drawn').images[2].alpha
          IN  IF t.t_type = Regular
              THEN /\ 2 * time <= total => next = 0
                   /\ 2 * time > total => current = 0
                   /\ time = 0 => (current = 1000 /\ next = 0)
                   /\ time = total => (current = 0 /\ next = 1000)
              ELSE current = 1000 /\ next = 0]_vars

\* C19 witness: a Regular Transition drawn in its second half, mid-fade
C19_Witness ==
    /\ IsSome(drawn)
    /\ Unwrap(transition).t_type = Regular
    /\ 2 * Unwrap(transition).time_progressed > total_duration(Unwrap(transition))
    /\ Unwrap(drawn).images[1].alpha = 0
    /\ Unwrap(drawn).images[2].alpha \in 1..999

---------------------------------------------------------------------------
(* Claims about clicks *)

\* the buttons that report a click in a handle_input step
Clickers == {i \in 0..3 : ClickedNow(i)}

\* C17: a click is a one-frame pulse: a button that reports a click was
\* Pressed before the call, so not Released by a click of its last
\* evaluation; a disabled button is never left Pressed, so that its first
\* evaluation after being re-enabled reports no click; and a handle_input
\* call that started a transition leaves no enabled button Pressed, so that
\* the next call reports no click.
C17_ClickIsPulse ==
    [][/\ \A i \in 0..3 : buttons'[i].disabled => buttons'[i].state # "Pressed"
       /\ HandleInputStep =>
            /\ \A i \in Clickers : buttons[i].state = "Pressed"
            /\ Started => \A i \in 0..3 : buttons'[i].state # "Pressed"]_vars

\* C17 witness: after a Restart the world rests in Egg and the re-enabled Sun
\* button, Released since its click, was evaluated with the pointer over it:
\* it is Hovered and no transition was started
C17_Witness ==
    /\ pc = "progress"
    /\ state = "Egg"
    /\ transition = None
    /\ IsSome(origin)
    /\ Unwrap(origin).b_type = "Restart"
    /\ ~buttons[0].disabled
    /\ buttons[0].state = "Hovered"

---------------------------------------------------------------------------
(* Claims about the kind of the active Transition *)

\* the panics of Transition::sound_to_play and Transition::subsequent_transition
KindPanics ==
    {"sound for crack requested but goal is no crack",
     "arrow in egg?", "arrow in big egg?", "restart?",
     "transition to EggCrack2 was Regular?",
     "transition to BigEggCrack2 was Regular?"}

\* C20: the kind of the active Transition is EggCracking exactly when its
\* goal is EggCrack1, EggCrack2, BigEggCrack1 or BigEggCrack2, the input an
\* EggCracking kind carries is Sun or Water, and no panic of sound_to_play
\* or subsequent_transition has occurred.
C20_KindMatchesGoal ==
    /\ IsSome(transition) =>
          LET t == Unwrap(transition)
          IN  /\ IsEggCracking(t.t_type) <=>
                     t.goal_state \in {"EggCrack1", "EggCrack2", "BigEggCrack1",
                                       "BigEggCrack2"}
              /\ IsEggCracking(t.t_type) => t.t_type[2] \in {"Sun", "Water"}
    /\ panicked \notin KindPanics

\* C20 witness: the follow-up to the second crack of the big egg is under
\* way and carries Water
C20_Witness ==
    /\ IsSome(transition)
    /\ Unwrap(transition).goal_state = "BigEggCrack2"
    /\ Unwrap(transition).t_type = EggCracking("Water")
    /\ Unwrap(transition).time_progressed > 0
    /\ state = "BigEggCrack1"

---------------------------------------------------------------------------
(* Claims about the progress of the game *)

\* C21: the game never gets stuck: whenever the world is at rest, with no
\* active Transition, at least one button is enabled.
C21_NeverStuck ==
    (transition = None /\ panicked = "") => Enabled(buttons) # {}

\* the frame loop with the pointer kept over the Sun button, over the Water
\* button or off every button; clicks during a Transition are included
SunWaterPointer == {ptr \in Pointer : ptr.region \in {"outside", "sun", "water"}}

SunWaterNext ==
    \/ \E ptr \in SunWaterPointer : HandleInput(ptr)
    \/ \E delta_secs \in Deltas, rand1, rand2 \in {0, 1} :
           World_progress(delta_secs, rand1, rand2)
    \/ Render

\* frames keep arriving, infinitely many with a positive delta
SunWaterFairSpec ==
    /\ Init /\ [][SunWaterNext]_vars
    /\ WF_vars(\E ptr \in SunWaterPointer : HandleInput(ptr))
    /\ WF_vars(Render)
    /\ SF_vars(\E delta_secs \in Deltas \ {0}, rand1, rand2 \in {0, 1} :
                   World_progress(delta_secs, rand1, rand2))

\* a handle_input call in which a button reports a click
ClickStep == HandleInputStep /\ Started

---------------------------------------------------------------------------
(* Claims about the effect of one frame *)

\* a World::progress step
ProgressStep == pc = "progress" /\ pc' = "render"

\* C23: World.state changes only in a World::progress call that completes
\* the active Transition, and then to that Transition's goal; handle_input
\* never changes it; a progress call that does not complete the active
\* Transition leaves World.state and the enablement of the buttons as they
\* were; a progress call with no active Transition changes nothing and
\* plays no sound.
C23_StateChangesAtFinalization ==
    [][/\ state' # state =>
            /\ ProgressStep
            /\ IsSome(transition)
            /\ state' = Unwrap(transition).goal_state
            /\ IsSome(lastDone')
            /\ Unwrap(lastDone').goal_state = state'
       /\ (ProgressStep /\ IsSome(transition) /\ lastDone' = None) =>
            /\ state' = state
            /\ Enabled(buttons') = Enabled(buttons)
       /\ (ProgressStep /\ transition = None) =>
            UNCHANGED <<state, transition, buttons, panicked, cues, plays>>]_vars

\* C23 witness: the first crack has just been finalized: World.state is its
\* goal and the second crack is the active Transition
C23_Witness ==
    /\ pc = "render"
    /\ IsSome(lastDone)
    /\ Unwrap(lastDone).goal_state = "EggCrack1"
    /\ state = "EggCrack1"
    /\ IsSome(transition)
    /\ Unwrap(transition).goal_state = "EggCrack2"

=============================================================================
